---- MODULE Spec2Model ----
(***************************************************************************)
(* Model of tydi_canine/postproc.py: the merge-join of examples, features  *)
(* and raw results (compute_pred_dict), the span scorer                    *)
(* (compute_predictions, get_best_indexes) and the worker-pool reduction   *)
(* (multiprocessing.Pool.imap_unordered over construct_prediction_object). *)
(*                                                                         *)
(* Python lists that the code indexes from 0 (logits, offsets) are         *)
(* functions on 0..n-1, so the indexes of the model are the indexes of the *)
(* source.  Python dicts are sequences of [key, value] records in          *)
(* insertion order (the order dict.items() iterates in).                   *)
(***************************************************************************)
EXTENDS Integers, Sequences, FiniteSets, TLC

VARIABLES
    \* ---- compute_pred_dict: arguments
    candidates_dict,      \* dict example_id -> passage_answer_candidates
    dev_features,         \* list of Feature records
    raw_results,          \* list of RawResult records
    candidate_beam,
    max_answer_length,
    \* ---- compute_pred_dict: locals
    merged,               \* the sorted (key, datum) pairs still to be popped
    eval_examples,
    num_failed_matches,
    ex_count,
    feature_count,
    result_count,
    pc,                   \* position of the coordinating thread
    error,                \* the exception that ended the run, or NoError
    log,                  \* warnings recorded by the logger, in order
    \* ---- the worker pool of compute_pred_dict
    nbr_parallel_blocks,
    chunk_size,
    taskqueue,            \* chunks of eval_examples indexes not yet taken by a worker
    running,              \* chunks a worker is executing
    outqueue,             \* results delivered to the iterator, in completion order
    steps,
    tydi_pred_dict,
    invocations,          \* history: calls of construct_prediction_object per example index
    skipped,              \* history: merged records dropped as failed matches
    \* ---- one call of compute_predictions (the scorer on its own)
    sc_example,
    sc_beam,
    sc_max_answer_length,
    sc_out,               \* [ret, warnings] of the call, or NotCalled
    sc_pc,
    \* ---- a CanineTokenizer and the values its methods were called with
    tk_text,              \* the text given to tokenize
    tk_tokens,            \* tokenize(text)
    tk_ids,               \* _convert_token_to_id of each token: token_ids_0
    tk_back,              \* _convert_id_to_token of each id
    tk_string,            \* convert_tokens_to_string(tokens)
    tk_ids_1,             \* token_ids_1, or None
    tk_inputs,            \* build_inputs_with_special_tokens
    tk_mask,              \* get_special_tokens_mask
    tk_type_ids,          \* create_token_type_ids_from_sequences
    tk_pc

join_vars  == <<candidates_dict, dev_features, raw_results, candidate_beam,
                max_answer_length, merged, eval_examples, num_failed_matches,
                ex_count, feature_count, result_count, pc, error, log, skipped>>
pool_vars  == <<nbr_parallel_blocks, chunk_size, taskqueue, running, outqueue,
                steps, tydi_pred_dict, invocations>>
score_vars == <<sc_example, sc_beam, sc_max_answer_length, sc_out, sc_pc>>
tok_vars   == <<tk_text, tk_tokens, tk_ids, tk_back, tk_string, tk_ids_1,
                tk_inputs, tk_mask, tk_type_ids, tk_pc>>
vars       == <<join_vars, pool_vars, score_vars, tok_vars>>

----------------------------------------------------------------------------
(* Python values *)

\* Python's None, as a record so that it compares with the records it replaces
None == [none |-> TRUE]

\* a Python list literal, indexed from 0
Arr(s) == [i \in 0..(Len(s) - 1) |-> s[i + 1]]

ArrLen(a) == Cardinality(DOMAIN a)

Min(a, b) == IF a <= b THEN a ELSE b

\* dict: key in d
DictHas(d, k) == \E i \in 1..Len(d) : d[i].key = k

\* dict: d[k]
DictGet(d, k) == d[CHOOSE i \in 1..Len(d) : d[i].key = k].value

\* dict: d[k] = v (an existing key keeps its position, a new key goes last)
DictSet(d, k, v) ==
    IF DictHas(d, k)
    THEN [i \in 1..Len(d) |-> IF d[i].key = k THEN [key |-> k, value |-> v] ELSE d[i]]
    ELSE Append(d, [key |-> k, value |-> v])

DictKeys(d) == {d[i].key : i \in 1..Len(d)}

\* the elements of a list
SeqRange(q) == {q[i] : i \in 1..Len(q)}

----------------------------------------------------------------------------
(* get_best_indexes *)

\* enumerate(logits[1:], 1): the (index, score) pairs of positions 1..len-1
EnumerateFrom1(logits) ==
    [i \in 1..(ArrLen(logits) - 1) |-> [index |-> i, score |-> logits[i]]]

\* an insertion that puts x in front of the elements of equal score
RECURSIVE InsertByScoreTiesLast(_, _)
InsertByScoreTiesLast(sorted, x) ==
    IF sorted = <<>> THEN <<x>>
    ELSE IF Head(sorted).score > x.score
         THEN <<Head(sorted)>> \o InsertByScoreTiesLast(Tail(sorted), x)
         ELSE <<x>> \o sorted

\* one insertion of the stable descending sort: x goes behind every element
\* whose score is at least its own (reverse=True keeps equal keys in order)
RECURSIVE InsertByScore(_, _)
InsertByScore(sorted, x) ==
    IF sorted = <<>> THEN <<x>>
    ELSE IF Head(sorted).score >= x.score
         THEN <<Head(sorted)>> \o InsertByScore(Tail(sorted), x)
         ELSE <<x>> \o sorted

\* sorted(pairs, key=lambda x: x[1], reverse=True)
RECURSIVE SortedByScore(_)
SortedByScore(pairs) ==
    IF pairs = <<>> THEN <<>>
    ELSE InsertByScore(SortedByScore(SubSeq(pairs, 1, Len(pairs) - 1)),
                       pairs[Len(pairs)])

\* a beam that ranks position 0 with the rest
GetBestIndexesFromZero(logits, n_best_size) ==
    LET all == [i \in 1..ArrLen(logits) |-> [index |-> i - 1, score |-> logits[i - 1]]]
        index_and_score == SortedByScore(all)
        taken == IF n_best_size <= 0 THEN 0
                 ELSE Min(n_best_size, Len(index_and_score))
    IN  [i \in 1..taken |-> index_and_score[i].index]

\* get_best_indexes(logits, n_best_size)
GetBestIndexes(logits, n_best_size) ==
    LET index_and_score == SortedByScore(EnumerateFrom1(logits))
        taken == IF n_best_size <= 0 THEN 0
                 ELSE Min(n_best_size, Len(index_and_score))
    IN  [i \in 1..taken |-> index_and_score[i].index]

----------------------------------------------------------------------------
(* compute_predictions *)

\* data.Language(language_id).name.lower(): the name of a language id
LanguageName(language_id) == <<"language", language_id>>

WarnLenMismatch == "ERROR: len(features) != len(results)"
WarnNoFeature   == "No feature found with unique_id"
WarnNoPredictions == "No predictions for eval_example"
WarnNoPassage   == "No passage predicted for eval_example. Choosing first."
WarnNoExample   == "Expected to already have example for this example id."

\* a length filter that also rejects a span of exactly max_len tokens
TooLongInclusive(length, max_len) == length >= max_len

\* the test of the span filter on its maximal token length
TooLong(length, max_len) == length > max_len

\* a span filter that never rejects on the order of the endpoints
EndBeforeStartNever(start_index, end_index) == FALSE

\* the test of the span filter on the order of the token endpoints
EndBeforeStart(start_index, end_index) == end_index < start_index

\* what stands in the list of tuples for an IndexError raised while the
\* offsets of a Feature were read at a position the Feature does not have
IndexErrorRaised == [raised |-> "IndexError"]

\* did the loops over a pair end in an exception?
HasRaised(tuples) ==
    \E i \in 1..Len(tuples) : "raised" \in DOMAIN tuples[i]

\* the body of `for end_index in end_indexes` for one start_index: the
\* tuples appended to predictions.  start_index, end_index and unique_id
\* are kept beside the code's five fields to tell which pair made the tuple.
\* An offset list shorter than the logits raises at the first read past its
\* end, and nothing is appended after that.
RECURSIVE EndIndexLoop(_, _, _, _, _, _)
EndIndexLoop(start_index, end_indexes, feature, result, unique_id, max_len) ==
    IF end_indexes = <<>> THEN <<>>
    ELSE
      LET end_index == Head(end_indexes)
          rest == EndIndexLoop(start_index, Tail(end_indexes), feature, result,
                               unique_id, max_len)
          cls_token_score == result.start_logits[0] + result.end_logits[0]
          minimal_span_score ==
              result.start_logits[start_index] + result.end_logits[end_index]
          summary == [minimal_span_score |-> minimal_span_score,
                      cls_token_score    |-> cls_token_score,
                      answer_type_logits |-> result.answer_type_logits,
                      predicted_label    |-> None]
      IN  IF EndBeforeStart(start_index, end_index) THEN rest
          ELSE IF start_index \notin DOMAIN feature.wp_start_offset
               THEN <<IndexErrorRaised>>
          ELSE IF feature.wp_start_offset[start_index] = -1 THEN rest
          ELSE IF end_index \notin DOMAIN feature.wp_end_offset
               THEN <<IndexErrorRaised>>
          ELSE IF feature.wp_end_offset[end_index] = -1 THEN rest
          ELSE IF TooLong(end_index - start_index + 1, max_len) THEN rest
          ELSE <<[score         |-> minimal_span_score - cls_token_score,
                  summary       |-> summary,
                  language_name |-> LanguageName(feature.language_id[0]),
                  start_span    |-> feature.wp_start_offset[start_index],
                  end_span      |-> feature.wp_end_offset[end_index] + 1,
                  start_index   |-> start_index,
                  end_index     |-> end_index,
                  unique_id     |-> unique_id]>> \o rest

\* the body of `for start_index in start_indexes`
RECURSIVE StartIndexLoop(_, _, _, _, _, _)
StartIndexLoop(start_indexes, end_indexes, feature, result, unique_id, max_len) ==
    IF start_indexes = <<>> THEN <<>>
    ELSE EndIndexLoop(Head(start_indexes), end_indexes, feature, result,
                      unique_id, max_len)
         \o StartIndexLoop(Tail(start_indexes), end_indexes, feature, result,
                           unique_id, max_len)

\* the tuples one Feature/Result pair appends to predictions
PairPredictions(feature, result, unique_id, n_best_size, max_len) ==
    StartIndexLoop(GetBestIndexes(result.start_logits, n_best_size),
                   GetBestIndexes(result.end_logits, n_best_size),
                   feature, result, unique_id, max_len)

\* `for unique_id, result in eval_example.results.items()` from item i on:
\* [missing |-> a result had no feature, raised |-> an exception ended the
\*  loop, predictions |-> the tuples so far]
RECURSIVE ResultsLoop(_, _, _, _, _)
ResultsLoop(eval_example, i, predictions, n_best_size, max_len) ==
    IF i > Len(eval_example.results)
    THEN [missing |-> FALSE, raised |-> FALSE, predictions |-> predictions]
    ELSE LET unique_id == eval_example.results[i].key
             result    == eval_example.results[i].value
             tuples    == PairPredictions(
                              DictGet(eval_example.features, unique_id), result,
                              unique_id, n_best_size, max_len)
         IN  IF ~DictHas(eval_example.features, unique_id)
             THEN [missing |-> TRUE, raised |-> FALSE, predictions |-> predictions]
             ELSE IF HasRaised(tuples)
             THEN [missing |-> FALSE, raised |-> TRUE, predictions |-> predictions]
             ELSE ResultsLoop(eval_example, i + 1, predictions \o tuples,
                              n_best_size, max_len)

\* a scan in which a later tuple of equal key replaces the best
RECURSIVE MaxLoopLast(_, _, _)
MaxLoopLast(predictions, i, best) ==
    IF i > Len(predictions) THEN best
    ELSE MaxLoopLast(predictions, i + 1,
                     IF predictions[i].score >= best.score THEN predictions[i] ELSE best)

\* the scan of max(): a later tuple replaces the best only with a larger key
RECURSIVE MaxLoop(_, _, _)
MaxLoop(predictions, i, best) ==
    IF i > Len(predictions) THEN best
    ELSE MaxLoop(predictions, i + 1,
                 IF predictions[i].score > best.score THEN predictions[i] ELSE best)

\* max(predictions, key=lambda x: x[0]) of a non-empty list
MaxByScore(predictions) == MaxLoop(predictions, 2, predictions[1])

\* containment with the candidate strictly larger at both ends
ContainsStrictly(c, start, end) ==
    c.plaintext_start_byte < start /\ c.plaintext_end_byte > end

\* does candidate c contain the byte span?
Contains(c, start, end) ==
    c.plaintext_start_byte <= start /\ c.plaintext_end_byte >= end

\* the for/else over enumerate(eval_example.candidates) from c_ind on:
\* [index |-> passage_span_index, found |-> the loop was left by break]
RECURSIVE CandidateLoop(_, _, _, _)
CandidateLoop(candidates, c_ind, start, end) ==
    IF c_ind >= Len(candidates) THEN [index |-> 0, found |-> FALSE]
    ELSE IF Contains(candidates[c_ind + 1], start, end)
         THEN [index |-> c_ind, found |-> TRUE]
         ELSE CandidateLoop(candidates, c_ind + 1, start, end)

PassageSpanIndex(candidates, start, end) == CandidateLoop(candidates, 0, start, end)

\* a scorer without the check of the two counts
CountsDifferNever(features, results) == FALSE

\* len(eval_example.features) != len(eval_example.results)
CountsDiffer(features, results) == Len(features) # Len(results)

\* a label whose scores leave the [CLS] score in
PredictedLabelOfSpanScore(eval_example, best, passage_span_index) ==
    [example_id           |-> eval_example.example_id,
     language             |-> best.language_name,
     passage_answer_index |-> passage_span_index,
     passage_answer_score |-> best.summary.minimal_span_score,
     minimal_answer       |-> [start_byte_offset |-> best.start_span,
                               end_byte_offset   |-> best.end_span],
     minimal_answer_score |-> best.summary.minimal_span_score,
     yes_no_answer        |-> "NONE"]

\* summary.predicted_label of the winning tuple
PredictedLabel(eval_example, best, passage_span_index) ==
    [example_id           |-> eval_example.example_id,
     language             |-> best.language_name,
     passage_answer_index |-> passage_span_index,
     passage_answer_score |-> best.score,
     minimal_answer       |-> [start_byte_offset |-> best.start_span,
                               end_byte_offset   |-> best.end_span],
     minimal_answer_score |-> best.score,
     yes_no_answer        |-> "NONE"]

\* a call that returned `ret` after logging `warnings`
Returns(ret, warnings, best, predictions) ==
    [ret |-> ret, warnings |-> warnings, best |-> best,
     predictions |-> predictions, raised |-> None]

\* a call that an exception ended
Raises(exception) ==
    [ret |-> None, warnings |-> <<>>, best |-> None,
     predictions |-> <<>>, raised |-> exception]

\* compute_predictions(eval_example, candidate_beam, max_answer_length):
\* [ret |-> the ScoreSummary or None, warnings |-> what logging.warning got,
\*  best |-> the winning tuple or None, predictions |-> the list of tuples,
\*  raised |-> the exception that ended the call, or None]
ComputePredictions(eval_example, beam, max_len) ==
    IF eval_example.results = <<>>
    THEN Returns(None, <<>>, None, <<>>)
    ELSE IF CountsDiffer(eval_example.features, eval_example.results)
    THEN Returns(None, <<WarnLenMismatch>>, None, <<>>)
    ELSE
      LET loop == ResultsLoop(eval_example, 1, <<>>, beam, max_len)
      IN  IF loop.missing
          THEN Returns(None, <<WarnNoFeature>>, None, loop.predictions)
          ELSE IF loop.raised
          THEN Raises(IndexErrorRaised)
          ELSE IF loop.predictions = <<>>
          THEN Returns(None, <<WarnNoPredictions>>, None, <<>>)
          ELSE
            LET best == MaxByScore(loop.predictions)
                passage == PassageSpanIndex(eval_example.candidates,
                                            best.start_span, best.end_span)
                label == PredictedLabel(eval_example, best, passage.index)
            IN  Returns([best.summary EXCEPT !.predicted_label = label],
                        IF passage.found THEN <<>> ELSE <<WarnNoPassage>>,
                        best, loop.predictions)

\* is the outcome of a task an exception?
IsFailure(outcome) == "raised" \in DOMAIN outcome

\* a task that reads predicted_label of whatever the scorer returned
ConstructPredictionObjectUnguarded(eval_example, beam, max_len) ==
    LET call == ComputePredictions(eval_example, beam, max_len)
    IN  IF call.raised # None THEN call.raised
        ELSE IF call.ret # None
        THEN [example_id |-> eval_example.example_id,
              predicted_label |-> call.ret.predicted_label]
        ELSE [raised |-> "AttributeError"]

\* construct_prediction_object: (example_id, predicted_label), or None; an
\* exception of compute_predictions leaves it as it came
ConstructPredictionObject(eval_example, beam, max_len) ==
    LET call == ComputePredictions(eval_example, beam, max_len)
    IN  IF call.raised # None THEN call.raised
        ELSE IF call.ret # None
        THEN [example_id |-> eval_example.example_id,
              predicted_label |-> call.ret.predicted_label]
        ELSE None


----------------------------------------------------------------------------
(* Inputs of the scorer *)

NumTokens == 3          \* token positions of a window: 0..NumTokens-1
MaxBeam == 2            \* candidate_beam ranges over 0..MaxBeam
MaxAnswerLength == 2    \* max_answer_length ranges over 1..MaxAnswerLength

Positions == 0..(NumTokens - 1)
LogitValues == {0, 1}
LogitArrays == [Positions -> LogitValues]

\* byte range of the t-th content token of a passage
TokenStart(t) == 3 * (t - 1)
TokenEnd(t)   == 3 * (t - 1) + 1

\* a Feature whose positions in `sentinel` (and position 0) are non-content
\* tokens; `reversed` lays the tokens out in descending byte order
MkFeature(unique_id, example_index, sentinel, reversed) ==
    LET tok(i) == IF reversed THEN NumTokens - i ELSE i
    IN  [unique_ids      |-> unique_id,
         example_index   |-> example_index,
         language_id     |-> Arr(<<1>>),
         wp_start_offset |-> [i \in Positions |->
             IF i = 0 \/ i \in sentinel THEN -1 ELSE TokenStart(tok(i))],
         wp_end_offset   |-> [i \in Positions |->
             IF i = 0 \/ i \in sentinel THEN -1 ELSE TokenEnd(tok(i))]]

MkResult(unique_id, start_logits, end_logits) ==
    [unique_id          |-> unique_id,
     start_logits       |-> start_logits,
     end_logits         |-> end_logits,
     answer_type_logits |-> Arr(<<0>>)]

MkCandidate(s, e) == [plaintext_start_byte |-> s, plaintext_end_byte |-> e]

MkExample(example_id, candidates, features, results) ==
    [example_id |-> example_id, candidates |-> candidates,
     features |-> features, results |-> results]

Item(k, v) == [key |-> k, value |-> v]

CandidateLists ==
    { <<>>,
      <<MkCandidate(0, 2)>>,
      <<MkCandidate(0, 5)>>,
      <<MkCandidate(0, 2), MkCandidate(0, 5)>>,
      <<MkCandidate(0, 5), MkCandidate(0, 2)>>,
      <<MkCandidate(3, 5), MkCandidate(0, 5)>> }

\* every window of NumTokens tokens: any sentinel set, either layout
AllFeatures(unique_id, example_index) ==
    { MkFeature(unique_id, example_index, m, r) :
        m \in SUBSET (Positions \ {0}), r \in BOOLEAN }

\* every result whose end_logits[0] is 0
AllResults(unique_id) ==
    { MkResult(unique_id, sl, el) :
        sl \in LogitArrays, el \in {a \in LogitArrays : a[0] = 0} }

\* results read against a feature without sentinels, in ascending layout
PlainResults(unique_id) ==
    { MkResult(unique_id, sl, el) :
        sl \in {a \in LogitArrays : a[0] = 0},
        el \in {a \in LogitArrays : a[0] = 0} }

\* one example with one feature and its result
OnePairExamples ==
    { MkExample(1, c, <<Item(2, f)>>, <<Item(2, r)>>) :
        c \in CandidateLists, f \in AllFeatures(1, 1), r \in AllResults(1) }

\* one example with two windows and their results
TwoPairExamples ==
    { MkExample(2, <<MkCandidate(0, 5)>>,
                <<Item(2, MkFeature(1, 2, {}, FALSE)), Item(3, MkFeature(2, 2, {}, FALSE))>>,
                <<Item(2, r1), Item(3, r2)>>) :
        r1 \in PlainResults(1), r2 \in PlainResults(2) }

\* examples whose features and results do not pair up
UnpairedExamples ==
    LET f(k) == Item(k, MkFeature(k - 1, 1, {}, FALSE))
        r(k) == Item(k, MkResult(k - 1, [i \in Positions |-> 0], [i \in Positions |-> i]))
        dicts(mk(_)) == { <<>>, <<mk(2)>>, <<mk(3)>>, <<mk(2), mk(3)>> }
    IN  { MkExample(1, <<MkCandidate(0, 5)>>, fs, rs) :
            fs \in dicts(f), rs \in dicts(r) }

\* the end-to-end scenario: logits over four tokens, sentinels at both ends
ScenarioEndToEnd ==
    MkExample(1, <<MkCandidate(0, 10)>>,
        <<Item(2, [unique_ids |-> 1, example_index |-> 1, language_id |-> Arr(<<1>>),
                   wp_start_offset |-> Arr(<<-1, 0, 5, -1>>),
                   wp_end_offset   |-> Arr(<<-1, 4, 9, -1>>)])>>,
        <<Item(2, MkResult(1, Arr(<<5, 1, 9, 2>>), Arr(<<5, 0, 1, 8>>)))>>)

\* a window whose one content token covers bytes start..end-1
SpanExample(candidates, start, end) ==
    MkExample(1, candidates,
        <<Item(2, [unique_ids |-> 1, example_index |-> 1, language_id |-> Arr(<<1>>),
                   wp_start_offset |-> Arr(<<-1, start>>),
                   wp_end_offset   |-> Arr(<<-1, end - 1>>)])>>,
        <<Item(2, MkResult(1, Arr(<<0, 1>>), Arr(<<0, 1>>)))>>)

ScenarioContainment == SpanExample(<<MkCandidate(0, 10), MkCandidate(10, 25)>>, 12, 20)
ScenarioFallback    == SpanExample(<<MkCandidate(0, 5)>>, 10, 15)

ScoreExamples ==
    OnePairExamples \cup TwoPairExamples \cup UnpairedExamples
    \cup {ScenarioEndToEnd, ScenarioContainment, ScenarioFallback}

----------------------------------------------------------------------------
(* The scorer on its own: one call of compute_predictions *)

TokIdle ==
    /\ tk_text = <<>> /\ tk_tokens = None /\ tk_ids = None
    /\ tk_back = None /\ tk_string = None
    /\ tk_ids_1 = None /\ tk_inputs = None
    /\ tk_mask = None /\ tk_type_ids = None
    /\ tk_pc = "idle"

JoinIdle ==
    /\ candidates_dict = <<>> /\ dev_features = <<>> /\ raw_results = <<>>
    /\ candidate_beam = 0 /\ max_answer_length = 0
    /\ merged = <<>> /\ eval_examples = <<>>
    /\ num_failed_matches = 0 /\ ex_count = 0 /\ feature_count = 0
    /\ result_count = 0 /\ pc = "idle" /\ error = None /\ log = <<>>
    /\ skipped = {}

PoolIdle ==
    /\ nbr_parallel_blocks = 0 /\ chunk_size = 0
    /\ taskqueue = <<>> /\ running = {} /\ outqueue = <<>>
    /\ steps = 0 /\ tydi_pred_dict = <<>> /\ invocations = <<>>

InitScore ==
    /\ JoinIdle /\ PoolIdle /\ TokIdle
    /\ sc_example \in ScoreExamples
    /\ sc_beam \in 0..MaxBeam
    /\ sc_max_answer_length \in (1..MaxAnswerLength) \cup {10}
    /\ sc_out = None
    /\ sc_pc = "call"

\* compute_predictions(eval_example, candidate_beam, max_answer_length)
Score ==
    /\ sc_pc = "call"
    /\ sc_out' = ComputePredictions(sc_example, sc_beam, sc_max_answer_length)
    /\ sc_pc' = "returned"
    /\ UNCHANGED <<sc_example, sc_beam, sc_max_answer_length, join_vars, pool_vars,
                   tok_vars>>

NextScore == Score

SpecScore == InitScore /\ [][NextScore]_vars


----------------------------------------------------------------------------
(* compute_pred_dict: building the merged list *)

\* the width of the integers of np.array(..., dtype="int32"), to scale: the
\* cast is modelled with IntBits bits in the place of 32, so that values on
\* both sides of its range can be written down
IntBits == 4

\* the largest value of the cast's integer type
Int32Max == 2 ^ (IntBits - 1) - 1

\* is x a value of the cast's integer type?
InInt32(x) == -Int32Max - 1 <= x /\ x <= Int32Max

\* np.array(..., dtype="int32") applied to one value: a value inside the
\* range is kept, a value outside wraps around modulo 2^IntBits
AsInt32(x) ==
    IF InInt32(x) THEN x
    ELSE ((x + Int32Max + 1) % (2 * Int32Max + 2)) - Int32Max - 1

\* the three kinds of datum the join loop tells apart:
\* isinstance(datum, tuple), "wp_start_offset" in datum, and the rest
KindExample == "example"
KindFeature == "feature"
KindResult  == "result"

\* examples_by_id = list(zip(example_ids, all_candidates))
ExamplesById(cd) ==
    [i \in 1..Len(cd) |-> [key   |-> AsInt32(cd[i].key),
                           kind  |-> KindExample,
                           datum |-> <<cd[i].key, cd[i].value>>]]

\* raw_results_by_id = [(int(res["unique_id"] + 1), res) for res in raw_results]
RawResultsById(rr) ==
    [i \in 1..Len(rr) |-> [key   |-> rr[i].unique_id + 1,
                           kind  |-> KindResult,
                           datum |-> rr[i]]]

\* features_by_id = list(zip(np.array(feature_ids, dtype="int32"), features))
FeaturesById(df) ==
    [i \in 1..Len(df) |-> [key   |-> AsInt32(df[i].unique_ids + 1),
                           kind  |-> KindFeature,
                           datum |-> df[i]]]

\* an insertion that puts x in front of the elements of equal key
RECURSIVE InsertByKeyTiesFirst(_, _)
InsertByKeyTiesFirst(sorted, x) ==
    IF sorted = <<>> THEN <<x>>
    ELSE IF Head(sorted).key < x.key
         THEN <<Head(sorted)>> \o InsertByKeyTiesFirst(Tail(sorted), x)
         ELSE <<x>> \o sorted

\* one insertion of the stable ascending sort: x goes behind every element
\* whose key is at most its own
RECURSIVE InsertByKey(_, _)
InsertByKey(sorted, x) ==
    IF sorted = <<>> THEN <<x>>
    ELSE IF Head(sorted).key <= x.key
         THEN <<Head(sorted)>> \o InsertByKey(Tail(sorted), x)
         ELSE <<x>> \o sorted

\* the pairs left in the order they came in
Unsorted(pairs) == pairs

\* sorted(pairs, key=lambda pair: pair[0])
RECURSIVE SortedByKey(_)
SortedByKey(pairs) ==
    IF pairs = <<>> THEN <<>>
    ELSE InsertByKey(SortedByKey(SubSeq(pairs, 1, Len(pairs) - 1)),
                     pairs[Len(pairs)])

\* merged = sorted(examples_by_id + raw_results_by_id + features_by_id, ...)
Merged(cd, df, rr) ==
    SortedByKey(ExamplesById(cd) \o RawResultsById(rr) \o FeaturesById(df))

\* EvalExample(example_id, candidates)
EvalExample(example_id, candidates) ==
    [example_id |-> example_id, candidates |-> candidates,
     results |-> <<>>, features |-> <<>>]

\* the keys a Feature record carries
FeatureFields ==
    {"unique_ids", "example_index", "language_id", "wp_start_offset", "wp_end_offset"}

\* the key the message of the failed assert reads from the Feature
AssertMessageField == "unique id"

\* what a failed `assert ..., f"... {datum['unique id']}"` raises: building
\* the message comes first, and reading a key the Feature lacks is a KeyError
\* `record` is the merged pair the loop was at
AssertFailure(record) ==
    IF AssertMessageField \in FeatureFields
    THEN [type |-> "AssertionError", descriptive |-> TRUE, at |-> record]
    ELSE [type |-> "KeyError", descriptive |-> FALSE, at |-> record]

\* a join that does not count the failed match
CountFailedMatchNot(n) == n

\* num_failed_matches += 1
CountFailedMatch(n) == n + 1

\* the index of eval_examples[-1]
Last(examples) == Len(examples)

\* a join that files every Feature under the first example
AttachFeatureToFirst(examples, key, datum) ==
    [examples EXCEPT ![1].features = DictSet(@, key, datum)]

\* eval_examples[-1].features[feature_unique_id] = datum
AttachFeature(examples, key, datum) ==
    [examples EXCEPT ![Last(examples)].features = DictSet(@, key, datum)]

\* eval_examples[-1].results[feature_unique_id] = datum
AttachResult(examples, key, datum) ==
    [examples EXCEPT ![Last(examples)].results = DictSet(@, key, datum)]


----------------------------------------------------------------------------
(* Inputs of compute_pred_dict *)

MaxKey == 4         \* example ids and join keys range over 1..MaxKey
MaxExamples == 2    \* entries of candidates_dict
MaxRecords == 4     \* records of dev_features and raw_results together
MaxChunkSize == 2   \* sys.getsizeof(eval_examples[0]) ranges over 1..MaxChunkSize

\* multiprocessing.cpu_count() of the machine
CpuCounts == {1, 2, 9}

\* the cap of min(multiprocessing.cpu_count(), 8)
PoolCap == 8

\* the elements of a set of integers as a list, largest first: the inputs
\* arrive unsorted, and the join has to put them in order
RECURSIVE Descending(_)
Descending(S) ==
    IF S = {} THEN <<>>
    ELSE LET m == CHOOSE x \in S : \A y \in S : y <= x
         IN  <<m>> \o Descending(S \ {m})

\* the candidate list stored for an example id
CandidatesOf(id) == <<MkCandidate(0, id)>>

CandidateDicts ==
    { [i \in 1..Len(ids) |-> Item(ids[i], CandidatesOf(ids[i]))] :
        ids \in { Descending(S) :
                    S \in {T \in SUBSET (1..MaxKey) : Cardinality(T) <= MaxExamples} } }

\* the example a record of join key `key` sorts under
OwnerOf(cd, key) ==
    LET ids == DictKeys(cd)
        below == {k \in ids : k <= key}
    IN  IF ids = {} THEN 0
        ELSE IF below = {} THEN CHOOSE k \in ids : \A j \in ids : k <= j
        ELSE CHOOSE k \in below : \A j \in below : j <= k

\* the unique ids of the windows: the small ones, and the largest value of
\* the cast's integer type, whose join key unique_id + 1 is beyond it
UniqueIds == (0..(MaxKey - 1)) \cup {Int32Max}

\* a Feature whose offset lists stop after position 0 while the logits of
\* its window go on
Truncated(feature) ==
    [feature EXCEPT !.wp_start_offset = [i \in {0} |-> @[i]],
                    !.wp_end_offset   = [i \in {0} |-> @[i]]]

\* features with distinct unique_ids; each names the example it sorts under
\* as its example_index; at most one of the small ones is out of the
\* ordinary, naming no example (0) or being truncated
FeatureLists(cd) ==
    LET idsets == {U \in SUBSET UniqueIds : Cardinality(U) <= MaxRecords}
        one(U) == {{}} \cup {{u} : u \in U \ {Int32Max}}
        odd(U) == {a \in one(U) \X one(U) : a[1] = {} \/ a[2] = {}}
    IN  UNION { { [i \in 1..Len(Descending(U)) |->
                     LET u == Descending(U)[i]
                         f == MkFeature(u, IF u \in a[1] THEN 0 ELSE OwnerOf(cd, u + 1),
                                        {}, FALSE)
                     IN  IF u \in a[2] THEN Truncated(f) ELSE f] :
                  a \in odd(U) } : U \in idsets }

\* the result of a window: an odd unique_id has its best start and best end
\* on token 1, an even one has its best start behind its best end
JoinResult1(u) ==
    MkResult(u,
        [i \in Positions |-> IF i = (IF u % 2 = 1 THEN 1 ELSE NumTokens - 1) THEN 1 ELSE 0],
        [i \in Positions |-> IF i = 1 THEN 1 ELSE 0])

\* results with distinct unique_ids out of `ids`
ResultLists(n, ids) ==
    { [i \in 1..Len(Descending(U)) |-> JoinResult1(Descending(U)[i])] :
        U \in {V \in SUBSET ids : Cardinality(V) <= n} }

\* the unique ids a result may have beside the features of df: the small
\* ones, and the large one with the feature of its window
ResultIds(df) ==
    (0..(MaxKey - 1)) \cup {df[i].unique_ids : i \in 1..Len(df)}

ScoreIdle ==
    /\ sc_example = None /\ sc_beam = 0 /\ sc_max_answer_length = 0
    /\ sc_out = None /\ sc_pc = "idle"

Init ==
    /\ candidates_dict \in CandidateDicts
    /\ dev_features \in FeatureLists(candidates_dict)
    /\ raw_results \in ResultLists(MaxRecords - Len(dev_features),
                                   ResultIds(dev_features))
    /\ candidate_beam = 1
    /\ max_answer_length = MaxAnswerLength
    /\ merged = <<>> /\ eval_examples = <<>>
    /\ num_failed_matches = 0 /\ ex_count = 0 /\ feature_count = 0
    /\ result_count = 0
    /\ pc = "start" /\ error = None /\ log = <<>> /\ skipped = {}
    /\ PoolIdle
    /\ ScoreIdle
    /\ TokIdle

----------------------------------------------------------------------------
(* compute_pred_dict: the join *)

\* does np.array(..., dtype="int32") get a value beyond its integer type?
CastOverflows(cd, df) ==
    \/ \E i \in 1..Len(cd) : ~InInt32(cd[i].key)
    \/ \E i \in 1..Len(df) : ~InInt32(df[i].unique_ids + 1)

\* lines 215-235: tag and sort the three inputs; no examples is a ValueError.
\* A value beyond the cast's integer type wraps around when it arrives as a
\* numpy integer, and is refused with an OverflowError by the numpy releases
\* that do not convert an out-of-bound Python integer.
Start ==
    /\ pc = "start"
    /\ \/ /\ candidates_dict = <<>>
          /\ pc' = "error"
          /\ error' = [type |-> "ValueError", descriptive |-> TRUE, at |-> None]
          /\ UNCHANGED merged
       \/ /\ candidates_dict # <<>>
          /\ CastOverflows(candidates_dict, dev_features)
          /\ pc' = "error"
          /\ error' = [type |-> "OverflowError", descriptive |-> TRUE, at |-> None]
          /\ UNCHANGED merged
       \/ /\ candidates_dict # <<>>
          /\ merged' = Merged(candidates_dict, dev_features, raw_results)
          /\ pc' = "join"
          /\ UNCHANGED error
    /\ UNCHANGED <<candidates_dict, dev_features, raw_results, candidate_beam,
                   max_answer_length, eval_examples, num_failed_matches, ex_count,
                   feature_count, result_count, log, skipped>>
    /\ UNCHANGED <<pool_vars, score_vars, tok_vars>>

JoinInputs == <<candidates_dict, dev_features, raw_results, candidate_beam,
                max_answer_length>>

\* one iteration of the loop whose datum is an example tuple
JoinExample ==
    /\ pc = "join" /\ merged # <<>>
    /\ Head(merged).kind = KindExample
    /\ merged' = Tail(merged)
    /\ ex_count' = ex_count + 1
    /\ eval_examples' = Append(eval_examples,
           EvalExample(Head(merged).datum[1], Head(merged).datum[2]))
    /\ UNCHANGED <<JoinInputs, num_failed_matches, feature_count, result_count,
                   pc, error, log, skipped>>
    /\ UNCHANGED <<pool_vars, score_vars, tok_vars>>

\* one iteration whose datum is a Feature
JoinFeature ==
    /\ pc = "join" /\ merged # <<>>
    /\ Head(merged).kind = KindFeature
    /\ merged' = Tail(merged)
    /\ feature_count' = feature_count + 1
    /\ IF eval_examples = <<>>
       THEN \* logged, counted, `continue`
            /\ log' = Append(log, WarnNoExample)
            /\ num_failed_matches' = CountFailedMatch(num_failed_matches)
            /\ skipped' = skipped \cup {Head(merged)}
            /\ UNCHANGED <<eval_examples, pc, error>>
       ELSE IF eval_examples[Last(eval_examples)].example_id
                 # Head(merged).datum.example_index
       THEN \* the assert fails
            /\ pc' = "error"
            /\ error' = AssertFailure(Head(merged))
            /\ UNCHANGED <<eval_examples, num_failed_matches, log, skipped>>
       ELSE /\ eval_examples' =
                 AttachFeature(eval_examples, Head(merged).key, Head(merged).datum)
            /\ UNCHANGED <<num_failed_matches, pc, error, log, skipped>>
    /\ UNCHANGED <<JoinInputs, ex_count, result_count>>
    /\ UNCHANGED <<pool_vars, score_vars, tok_vars>>

\* one iteration whose datum is a RawResult
JoinResult ==
    /\ pc = "join" /\ merged # <<>>
    /\ Head(merged).kind = KindResult
    /\ merged' = Tail(merged)
    /\ result_count' = result_count + 1
    /\ IF eval_examples = <<>>
       THEN /\ log' = Append(log, WarnNoExample)
            /\ num_failed_matches' = CountFailedMatch(num_failed_matches)
            /\ skipped' = skipped \cup {Head(merged)}
            /\ UNCHANGED eval_examples
       ELSE /\ eval_examples' =
                 AttachResult(eval_examples, Head(merged).key, Head(merged).datum)
            /\ UNCHANGED <<num_failed_matches, log, skipped>>
    /\ UNCHANGED <<JoinInputs, ex_count, feature_count, pc, error>>
    /\ UNCHANGED <<pool_vars, score_vars, tok_vars>>

----------------------------------------------------------------------------
(* compute_pred_dict: the worker pool *)

\* a chunking that drops the last, shorter chunk
ChunksWithoutRest(n, size) ==
    [c \in 1..(n \div size) |-> [j \in 1..size |-> (c - 1) * size + j]]

\* the chunks imap_unordered cuts n tasks into: runs of `size` indexes
Chunks(n, size) ==
    [c \in 1..((n + size - 1) \div size) |->
        [j \in 1..Min(size, n - (c - 1) * size) |-> (c - 1) * size + j]]

\* a worker that puts None in the place of a task that raised
ChunkResultsSwallowing(chunk, examples, beam, max_len) ==
    [j \in 1..Len(chunk) |->
        LET outcome == ConstructPredictionObject(examples[chunk[j]], beam, max_len)
        IN  IF IsFailure(outcome) THEN None ELSE outcome]

\* what a worker hands back for a chunk: construct_func of each example, in
\* order; if a task raises, the exception of the first such task is all
\* the chunk hands back
ChunkResults(chunk, examples, beam, max_len) ==
    LET outcomes == [j \in 1..Len(chunk) |->
                        ConstructPredictionObject(examples[chunk[j]], beam, max_len)]
        failed == {j \in 1..Len(chunk) : IsFailure(outcomes[j])}
    IN  IF failed = {} THEN outcomes
        ELSE <<outcomes[CHOOSE j \in failed : \A k \in failed : j <= k]>>

\* a collection keyed by the order of arrival
CollectResultByArrival(pred_dict, result) ==
    IF result # None
    THEN DictSet(pred_dict, Len(pred_dict) + 1, result.predicted_label)
    ELSE pred_dict

\* `if result: tydi_pred_dict[result[0]] = result[1]`
CollectResult(pred_dict, result) ==
    IF result # None
    THEN DictSet(pred_dict, result.example_id, result.predicted_label)
    ELSE pred_dict

\* lines 284-300: the loop is over; report, open the pool, submit the chunks
PoolStart ==
    /\ pc = "join" /\ merged = <<>>
    /\ \E cpu_count \in CpuCounts, sizeof \in 1..MaxChunkSize :
          /\ nbr_parallel_blocks' = Min(cpu_count, PoolCap)
          /\ chunk_size' = sizeof
          /\ taskqueue' = Chunks(Len(eval_examples), sizeof)
    /\ log' = IF num_failed_matches > 0
              THEN Append(log, "Num failed matches") ELSE log
    /\ invocations' = [i \in 1..Len(eval_examples) |-> 0]
    /\ pc' = "collect"
    /\ UNCHANGED <<JoinInputs, merged, eval_examples, num_failed_matches, ex_count,
                   feature_count, result_count, error, skipped>>
    /\ UNCHANGED <<running, outqueue, steps, tydi_pred_dict, score_vars, tok_vars>>

\* an idle worker takes the next chunk
Dispatch ==
    /\ pc = "collect" /\ taskqueue # <<>>
    /\ Cardinality(running) < nbr_parallel_blocks
    /\ running' = running \cup {Head(taskqueue)}
    /\ taskqueue' = Tail(taskqueue)
    /\ UNCHANGED <<join_vars, score_vars, tok_vars, nbr_parallel_blocks, chunk_size, outqueue,
                   steps, tydi_pred_dict, invocations>>

\* a worker finishes its chunk and hands the results to the iterator
Complete ==
    /\ pc = "collect"
    /\ \E chunk \in running :
          /\ running' = running \ {chunk}
          /\ outqueue' = outqueue \o
                 ChunkResults(chunk, eval_examples, candidate_beam, max_answer_length)
          /\ invocations' = [i \in DOMAIN invocations |->
                 IF i \in SeqRange(chunk) THEN invocations[i] + 1 ELSE invocations[i]]
    /\ UNCHANGED <<join_vars, score_vars, tok_vars, nbr_parallel_blocks, chunk_size, taskqueue,
                   steps, tydi_pred_dict>>

\* the exception the iterator re-raises in the coordinating thread
WorkerError(outcome) ==
    [type |-> outcome.raised, descriptive |-> TRUE, at |-> None]

\* one iteration of `for result in pool.imap_unordered(...)`: the iterator
\* yields the next result, or re-raises the exception of a task, which
\* leaves the loop and compute_pred_dict
Collect ==
    /\ pc = "collect" /\ outqueue # <<>>
    /\ outqueue' = Tail(outqueue)
    /\ IF IsFailure(Head(outqueue))
       THEN /\ pc' = "error"
            /\ error' = WorkerError(Head(outqueue))
            /\ UNCHANGED <<steps, tydi_pred_dict>>
       ELSE /\ steps' = steps + 1
            /\ tydi_pred_dict' = CollectResult(tydi_pred_dict, Head(outqueue))
            /\ UNCHANGED <<pc, error>>
    /\ UNCHANGED <<JoinInputs, merged, eval_examples, num_failed_matches, ex_count,
                   feature_count, result_count, log, skipped>>
    /\ UNCHANGED <<score_vars, tok_vars, nbr_parallel_blocks, chunk_size, taskqueue,
                   running, invocations>>

\* the iterator is exhausted: return tydi_pred_dict
Return ==
    /\ pc = "collect"
    /\ taskqueue = <<>> /\ running = {} /\ outqueue = <<>>
    /\ pc' = "done"
    /\ UNCHANGED <<candidates_dict, dev_features, raw_results, candidate_beam,
                   max_answer_length, merged, eval_examples, num_failed_matches,
                   ex_count, feature_count, result_count, error, log, skipped>>
    /\ UNCHANGED <<pool_vars, score_vars, tok_vars>>

Next ==
    \/ Start
    \/ JoinExample
    \/ JoinFeature
    \/ JoinResult
    \/ PoolStart
    \/ Dispatch
    \/ Complete
    \/ Collect
    \/ Return

Spec == Init /\ [][Next]_vars


----------------------------------------------------------------------------
(* canine/tokenizer.py: CanineTokenizer.  A Python str is the sequence of  *)
(* its codepoints, so that ord, chr, list(text) and "".join are what they  *)
(* do to codepoints.                                                       *)

UNICODE_VOCAB_SIZE == 1114112

PAD == 0
CLS == 57344
SEP == 57345
BOS == 57346
MASK == 57347
RESERVED == 57348

\* SPECIAL_CODEPOINTS: the human-readable name of each special codepoint,
\* "[CLS]", "[SEP]", "[BOS]", "[MASK]", "[PAD]", "[RESERVED]"
SPECIAL_CODEPOINTS ==
    << Item(CLS,      <<91, 67, 76, 83, 93>>),
       Item(SEP,      <<91, 83, 69, 80, 93>>),
       Item(BOS,      <<91, 66, 79, 83, 93>>),
       Item(MASK,     <<91, 77, 65, 83, 75, 93>>),
       Item(PAD,      <<91, 80, 65, 68, 93>>),
       Item(RESERVED, <<91, 82, 69, 83, 69, 82, 86, 69, 68, 93>>) >>

\* _tokenize(text): list(text), one token of one character per codepoint
Tokenize(text) == [i \in 1..Len(text) |-> <<text[i]>>]

\* _convert_token_to_id(token): ord(token); ord of a string that is not one
\* character long is a TypeError, re-raised as ValueError
ConvertTokenToId(token) ==
    IF Len(token) = 1 THEN token[1] ELSE [raised |-> "ValueError"]

\* a conversion without the table of names
ConvertIdToTokenByChr(index) ==
    IF 0 <= index /\ index < UNICODE_VOCAB_SIZE THEN <<index>>
    ELSE [raised |-> "ValueError"]

\* _convert_id_to_token(index): the name of a special codepoint, chr(index)
\* of any other; chr accepts the codepoints below the size of the Unicode
\* vocabulary and raises ValueError for the rest
ConvertIdToToken(index) ==
    IF DictHas(SPECIAL_CODEPOINTS, index) THEN DictGet(SPECIAL_CODEPOINTS, index)
    ELSE IF 0 <= index /\ index < UNICODE_VOCAB_SIZE THEN <<index>>
    ELSE [raised |-> "ValueError"]

\* convert_tokens_to_string(tokens): "".join(tokens)
RECURSIVE ConvertTokensToString(_)
ConvertTokensToString(tokens) ==
    IF tokens = <<>> THEN <<>>
    ELSE tokens[1] \o ConvertTokensToString(Tail(tokens))

\* sep_token_id, cls_token_id: the ids of sep_token=chr(SEP), cls_token=chr(CLS)
sep_token_id == ConvertTokenToId(<<SEP>>)
cls_token_id == ConvertTokenToId(<<CLS>>)

\* an optional list argument is None or holds a list
List(ids) == [list |-> ids]

\* [v] * n
Repeat(v, n) == [i \in 1..n |-> v]

\* build_inputs_with_special_tokens(token_ids_0, token_ids_1)
BuildInputsWithSpecialTokens(token_ids_0, token_ids_1) ==
    LET sep == <<sep_token_id>>
        cls == <<cls_token_id>>
    IN  IF token_ids_1 = None THEN cls \o token_ids_0 \o sep
        ELSE cls \o token_ids_0 \o sep \o token_ids_1.list \o sep

\* a mask laid out for a single sequence whatever token_ids_1 is
GetSpecialTokensMaskSingle(token_ids_0, token_ids_1) ==
    <<1>> \o Repeat(0, Len(token_ids_0)) \o <<1>>

\* get_special_tokens_mask(token_ids_0, token_ids_1) with
\* already_has_special_tokens=False (True hands over to the base class)
GetSpecialTokensMask(token_ids_0, token_ids_1) ==
    IF token_ids_1 = None
    THEN <<1>> \o Repeat(0, Len(token_ids_0)) \o <<1>>
    ELSE <<1>> \o Repeat(0, Len(token_ids_0)) \o <<1>>
         \o Repeat(0, Len(token_ids_1.list)) \o <<1>>

\* create_token_type_ids_from_sequences(token_ids_0, token_ids_1)
CreateTokenTypeIdsFromSequences(token_ids_0, token_ids_1) ==
    LET sep == <<sep_token_id>>
        cls == <<cls_token_id>>
    IN  IF token_ids_1 = None THEN Repeat(0, Len(cls \o token_ids_0 \o sep))
        ELSE Repeat(0, Len(cls \o token_ids_0 \o sep))
             \o Repeat(1, Len(token_ids_1.list \o sep))

----------------------------------------------------------------------------
(* Inputs and calls of the tokenizer *)

MaxTextLen == 2     \* texts and id lists have 0..MaxTextLen elements

\* the codepoints texts are written in: the special ones, "a", and the
\* first and the last codepoint that is none of these
TextAlphabet ==
    {PAD, CLS, SEP, BOS, MASK, RESERVED, 97, RESERVED + 1, UNICODE_VOCAB_SIZE - 1}

Texts == UNION { [1..n -> TextAlphabet] : n \in 0..MaxTextLen }

\* the second sequences of a pair
SecondSequences == UNION { [1..n -> {97, SEP}] : n \in 0..MaxTextLen }

InitTok ==
    /\ JoinIdle /\ PoolIdle /\ ScoreIdle
    /\ tk_text \in Texts
    /\ tk_tokens = None /\ tk_ids = None /\ tk_back = None /\ tk_string = None
    /\ tk_ids_1 = None /\ tk_inputs = None /\ tk_mask = None /\ tk_type_ids = None
    /\ tk_pc = "tokenize"

TokRest == <<join_vars, pool_vars, score_vars, tk_text>>

\* tokenize(text)
TokTokenize ==
    /\ tk_pc = "tokenize"
    /\ tk_tokens' = Tokenize(tk_text)
    /\ tk_pc' = "to_ids"
    /\ UNCHANGED <<TokRest, tk_ids, tk_back, tk_string, tk_ids_1, tk_inputs, tk_mask,
                   tk_type_ids>>

\* _convert_token_to_id of each token
TokConvertTokensToIds ==
    /\ tk_pc = "to_ids"
    /\ tk_ids' = [i \in 1..Len(tk_tokens) |-> ConvertTokenToId(tk_tokens[i])]
    /\ tk_pc' = "to_tokens"
    /\ UNCHANGED <<TokRest, tk_tokens, tk_back, tk_string, tk_ids_1, tk_inputs, tk_mask,
                   tk_type_ids>>

\* _convert_id_to_token of each id
TokConvertIdsToTokens ==
    /\ tk_pc = "to_tokens"
    /\ tk_back' = [i \in 1..Len(tk_ids) |-> ConvertIdToToken(tk_ids[i])]
    /\ tk_pc' = "to_string"
    /\ UNCHANGED <<TokRest, tk_tokens, tk_ids, tk_string, tk_ids_1, tk_inputs, tk_mask,
                   tk_type_ids>>

\* convert_tokens_to_string(tokenize(text))
TokConvertTokensToString ==
    /\ tk_pc = "to_string"
    /\ tk_string' = ConvertTokensToString(tk_tokens)
    /\ tk_pc' = "build"
    /\ UNCHANGED <<TokRest, tk_tokens, tk_ids, tk_back, tk_ids_1, tk_inputs, tk_mask,
                   tk_type_ids>>

\* build_inputs_with_special_tokens(token_ids_0, token_ids_1) for the ids of
\* the text, alone or with a second sequence
TokBuildInputs ==
    /\ tk_pc = "build"
    /\ \E token_ids_1 \in {None} \cup {List(ids) : ids \in SecondSequences} :
          /\ tk_ids_1' = token_ids_1
          /\ tk_inputs' = BuildInputsWithSpecialTokens(tk_ids, token_ids_1)
    /\ tk_pc' = "mask"
    /\ UNCHANGED <<TokRest, tk_tokens, tk_ids, tk_back, tk_string, tk_mask, tk_type_ids>>

\* get_special_tokens_mask(token_ids_0, token_ids_1)
TokGetSpecialTokensMask ==
    /\ tk_pc = "mask"
    /\ tk_mask' = GetSpecialTokensMask(tk_ids, tk_ids_1)
    /\ tk_pc' = "types"
    /\ UNCHANGED <<TokRest, tk_tokens, tk_ids, tk_back, tk_string, tk_ids_1, tk_inputs,
                   tk_type_ids>>

\* create_token_type_ids_from_sequences(token_ids_0, token_ids_1)
TokCreateTokenTypeIds ==
    /\ tk_pc = "types"
    /\ tk_type_ids' = CreateTokenTypeIdsFromSequences(tk_ids, tk_ids_1)
    /\ tk_pc' = "done"
    /\ UNCHANGED <<TokRest, tk_tokens, tk_ids, tk_back, tk_string, tk_ids_1, tk_inputs,
                   tk_mask>>

NextTok ==
    \/ TokTokenize
    \/ TokConvertTokensToIds
    \/ TokConvertIdsToTokens
    \/ TokConvertTokensToString
    \/ TokBuildInputs
    \/ TokGetSpecialTokensMask
    \/ TokCreateTokenTypeIds

SpecTok == InitTok /\ [][NextTok]_vars


----------------------------------------------------------------------------
(* Properties of the scorer, checked under SpecScore *)

Returned == sc_pc = "returned"
Predicted == Returned /\ sc_out.ret # None
Label == sc_out.ret.predicted_label

\* the Feature the winning tuple was read from
WinningFeature == DictGet(sc_example.features, sc_out.best.unique_id)

\* content positions i <= j of a feature never run backwards in bytes
OffsetsAscend(feature) ==
    \A i, j \in DOMAIN feature.wp_start_offset :
        (i <= j /\ feature.wp_start_offset[i] # -1 /\ feature.wp_end_offset[j] # -1)
            => feature.wp_start_offset[i] <= feature.wp_end_offset[j] + 1

\* the three conditions on the token endpoints of the winning span
TokenSpanValid ==
    /\ sc_out.best.start_index <= sc_out.best.end_index
    /\ WinningFeature.wp_start_offset[sc_out.best.start_index] # -1
    /\ WinningFeature.wp_end_offset[sc_out.best.end_index] # -1
    /\ sc_out.best.end_index - sc_out.best.start_index + 1 <= sc_max_answer_length

\* C3 as stated: a returned minimal answer never ends before it starts in
\* bytes, has no sentinel endpoint and is at most max_answer_length tokens long
SpanValidity ==
    Predicted =>
        /\ Label.minimal_answer.end_byte_offset >= Label.minimal_answer.start_byte_offset
        /\ WinningFeature.wp_start_offset[sc_out.best.start_index] # -1
        /\ WinningFeature.wp_end_offset[sc_out.best.end_index] # -1
        /\ sc_out.best.end_index - sc_out.best.start_index + 1 <= sc_max_answer_length

\* C3 amended: the winning span never has its end token before its start
\* token, has no sentinel endpoint and is at most max_answer_length tokens
\* long; its byte range is the offsets of those two tokens, and it does not
\* end before it starts whenever the feature's offsets ascend with position
SpanValidityOfTokens ==
    Predicted =>
        /\ TokenSpanValid
        /\ Label.minimal_answer.start_byte_offset
               = WinningFeature.wp_start_offset[sc_out.best.start_index]
        /\ Label.minimal_answer.end_byte_offset
               = WinningFeature.wp_end_offset[sc_out.best.end_index] + 1
        /\ OffsetsAscend(WinningFeature) =>
               Label.minimal_answer.end_byte_offset
                   >= Label.minimal_answer.start_byte_offset

\* C3 witness: a prediction spanning two tokens of an ascending feature, made
\* with a beam that also offered the reversed pair
SpanValidityWitness ==
    /\ Predicted
    /\ OffsetsAscend(WinningFeature)
    /\ sc_out.best.end_index > sc_out.best.start_index
    /\ sc_beam >= 2

Encounters ==
    { t \in (1..Len(sc_example.results)) \X (1..sc_beam) \X (1..sc_beam) :
        LET result  == sc_example.results[t[1]].value
            feature == DictGet(sc_example.features, sc_example.results[t[1]].key)
            starts  == GetBestIndexes(result.start_logits, sc_beam)
            ends    == GetBestIndexes(result.end_logits, sc_beam)
        IN  /\ t[2] <= Len(starts) /\ t[3] <= Len(ends)
            /\ starts[t[2]] <= ends[t[3]]
            /\ feature.wp_start_offset[starts[t[2]]] # -1
            /\ feature.wp_end_offset[ends[t[3]]] # -1
            /\ ends[t[3]] - starts[t[2]] + 1 <= sc_max_answer_length }

EncounterStart(t) ==
    GetBestIndexes(sc_example.results[t[1]].value.start_logits, sc_beam)[t[2]]

EncounterEnd(t) ==
    GetBestIndexes(sc_example.results[t[1]].value.end_logits, sc_beam)[t[3]]

\* rank_score of an encounter
RankScore(t) ==
    LET result == sc_example.results[t[1]].value
    IN  result.start_logits[EncounterStart(t)] + result.end_logits[EncounterEnd(t)]
        - (result.start_logits[0] + result.end_logits[0])

\* s is met before t
MetBefore(s, t) ==
    \/ s[1] < t[1]
    \/ s[1] = t[1] /\ s[2] < t[2]
    \/ s[1] = t[1] /\ s[2] = t[2] /\ s[3] < t[3]

\* C7: the prediction is the tuple of maximal rank_score over all pairs of
\* the example, and among the tuples of that score the one met first
GlobalSelection ==
    Predicted =>
        \E t \in Encounters :
            /\ \A s \in Encounters : RankScore(s) <= RankScore(t)
            /\ \A s \in Encounters : RankScore(s) = RankScore(t) => ~MetBefore(s, t)
            /\ sc_out.best.unique_id = sc_example.results[t[1]].key
            /\ sc_out.best.start_index = EncounterStart(t)
            /\ sc_out.best.end_index = EncounterEnd(t)
            /\ sc_out.best.score = RankScore(t)
            /\ Label.minimal_answer_score = RankScore(t)

\* C7 witness: a prediction for which tuples of two different results share
\* the maximal rank_score
GlobalSelectionWitness ==
    /\ Predicted
    /\ \E s, t \in Encounters :
          /\ s[1] # t[1]
          /\ RankScore(s) = RankScore(t)
          /\ \A r \in Encounters : RankScore(r) <= RankScore(t)

\* the candidates, by position from 0, that contain the returned span
ContainingCandidates ==
    { c \in 0..(Len(sc_example.candidates) - 1) :
        /\ sc_example.candidates[c + 1].plaintext_start_byte
               <= Label.minimal_answer.start_byte_offset
        /\ sc_example.candidates[c + 1].plaintext_end_byte
               >= Label.minimal_answer.end_byte_offset }

\* C8: passage_answer_index is the first candidate containing the span, and
\* 0 with a warning when none does; [(0,10),(10,25)] with span (12,20) gives
\* 1, [(0,5)] with span (10,15) gives 0 and the warning
PassageResolution ==
    Predicted =>
        /\ IF ContainingCandidates = {}
           THEN /\ Label.passage_answer_index = 0
                /\ sc_out.warnings = <<WarnNoPassage>>
           ELSE /\ Label.passage_answer_index \in ContainingCandidates
                /\ \A c \in ContainingCandidates : Label.passage_answer_index <= c
                /\ sc_out.warnings = <<>>
        /\ sc_example = ScenarioContainment =>
               /\ Label.minimal_answer = [start_byte_offset |-> 12, end_byte_offset |-> 20]
               /\ Label.passage_answer_index = 1
        /\ sc_example = ScenarioFallback =>
               /\ Label.minimal_answer = [start_byte_offset |-> 10, end_byte_offset |-> 15]
               /\ Label.passage_answer_index = 0
               /\ sc_out.warnings = <<WarnNoPassage>>

\* C8 witness: a span that the second of two candidates contains and the
\* first does not
PassageResolutionWitness ==
    /\ Predicted
    /\ Len(sc_example.candidates) = 2
    /\ ContainingCandidates = {1}

IsEndToEnd ==
    /\ Returned
    /\ sc_example = ScenarioEndToEnd
    /\ sc_beam = 2
    /\ sc_max_answer_length = 10

\* C9 as stated: the scenario's winning token pair is (2, 3), its byte span
\* (5, 10), its passage_answer_index 0
EndToEndScenario ==
    IsEndToEnd =>
        /\ sc_out.ret # None
        /\ sc_out.best.start_index = 2 /\ sc_out.best.end_index = 3
        /\ Label.minimal_answer = [start_byte_offset |-> 5, end_byte_offset |-> 10]
        /\ Label.passage_answer_index = 0

\* C9 amended: the scenario's winning token pair is (2, 2), start and end on
\* token 2, since token 3 has the sentinel end offset; its byte span is
\* (5, 10) and its passage_answer_index 0
EndToEndScenarioSameToken ==
    IsEndToEnd =>
        /\ sc_out.ret # None
        /\ sc_out.best.start_index = 2 /\ sc_out.best.end_index = 2
        /\ Label.minimal_answer = [start_byte_offset |-> 5, end_byte_offset |-> 10]
        /\ Label.passage_answer_index = 0
        /\ sc_out.warnings = <<>>

\* C9 witness: the scenario has been scored with beam 2 and length cap 10
EndToEndScenarioWitness == IsEndToEnd /\ sc_out.ret # None

\* position p is ranked before position q: the larger logit first, of two
\* equal logits the smaller position first
RanksBefore(logits, p, q) ==
    logits[p] > logits[q] \/ (logits[p] = logits[q] /\ p < q)

\* best is the beam of size n over logits
IsBeam(best, logits, n) ==
    LET len == ArrLen(logits)
        chosen == {best[i] : i \in 1..Len(best)}
    IN  /\ Len(best) = Min(n, len - 1)
        /\ Cardinality(chosen) = Len(best)
        /\ chosen \subseteq 1..(len - 1)
        /\ \A i, j \in 1..Len(best) : i < j => RanksBefore(logits, best[i], best[j])
        /\ \A p \in chosen : \A q \in (1..(len - 1)) \ chosen : RanksBefore(logits, p, q)

\* C15: the start beam and the end beam of every result never hold position
\* 0, hold exactly min(n, len - 1) distinct positions, and these are the
\* positions of 1..len-1 with the highest logits, in descending order of
\* logit and, for equal logits, ascending order of position
BeamSelection ==
    Returned =>
        \A i \in 1..Len(sc_example.results) :
            LET result == sc_example.results[i].value
            IN  /\ IsBeam(GetBestIndexes(result.start_logits, sc_beam),
                          result.start_logits, sc_beam)
                /\ IsBeam(GetBestIndexes(result.end_logits, sc_beam),
                          result.end_logits, sc_beam)

\* C15 witness: a prediction made with beam 1 from start logits that are
\* equal on positions 1 and 2 and larger on position 0
BeamSelectionWitness ==
    /\ Predicted
    /\ sc_beam = 1
    /\ \E i \in 1..Len(sc_example.results) :
          LET logits == sc_example.results[i].value.start_logits
          IN  /\ ArrLen(logits) >= 3
              /\ logits[1] = logits[2]
              /\ logits[0] > logits[1]
              /\ sc_out.best.start_index = 1

\* the call went through the loops of every result: each result found its
\* feature and no exception ended the call
LoopsCompleted ==
    /\ Returned /\ sc_out.raised = None
    /\ sc_example.results # <<>>
    /\ Len(sc_example.features) = Len(sc_example.results)
    /\ \A i \in 1..Len(sc_example.results) :
           DictHas(sc_example.features, sc_example.results[i].key)

\* the pairs (start, end) of the two beams of a result that pass the filters
KeptPairs(feature, result) ==
    LET starts == GetBestIndexes(result.start_logits, sc_beam)
        ends   == GetBestIndexes(result.end_logits, sc_beam)
    IN  { pair \in SeqRange(starts) \X SeqRange(ends) :
            /\ pair[2] >= pair[1]
            /\ feature.wp_start_offset[pair[1]] # -1
            /\ feature.wp_end_offset[pair[2]] # -1
            /\ pair[2] - pair[1] + 1 <= sc_max_answer_length }

\* C16: for each Feature/Result pair the recorded tuples are exactly the
\* pairs of start beam x end beam with end >= start, no sentinel offset at
\* either end and at most max_answer_length tokens, each once; each has
\* rank_score = start_logits[start] + end_logits[end]
\*              - (start_logits[0] + end_logits[0])
\* and the byte range (wp_start_offset[start], wp_end_offset[end] + 1)
TupleConstruction ==
    LoopsCompleted =>
        \A i \in 1..Len(sc_example.results) :
            LET key     == sc_example.results[i].key
                result  == sc_example.results[i].value
                feature == DictGet(sc_example.features, key)
                mine    == { j \in 1..Len(sc_out.predictions) :
                               sc_out.predictions[j].unique_id = key }
            IN  /\ { <<sc_out.predictions[j].start_index,
                        sc_out.predictions[j].end_index>> : j \in mine }
                       = KeptPairs(feature, result)
                /\ Cardinality(mine) = Cardinality(KeptPairs(feature, result))
                /\ \A j \in mine :
                       LET t == sc_out.predictions[j]
                       IN  /\ t.score =
                                 result.start_logits[t.start_index]
                                 + result.end_logits[t.end_index]
                                 - (result.start_logits[0] + result.end_logits[0])
                           /\ t.start_span = feature.wp_start_offset[t.start_index]
                           /\ t.end_span = feature.wp_end_offset[t.end_index] + 1

\* C16 witness: with max_answer_length 2 and beam 2 a span of exactly two
\* tokens is recorded while the reversed pair of the beams is not
TupleConstructionWitness ==
    /\ LoopsCompleted
    /\ sc_max_answer_length = 2 /\ sc_beam = 2
    /\ \E j \in 1..Len(sc_out.predictions) :
          /\ sc_out.predictions[j].start_index = 1
          /\ sc_out.predictions[j].end_index = 2
    /\ Len(sc_out.predictions) < 4

\* rank_score of the winning tuple, from the logits of its result
WinningRankScore ==
    LET result == DictGet(sc_example.results, sc_out.best.unique_id)
    IN  result.start_logits[sc_out.best.start_index]
        + result.end_logits[sc_out.best.end_index]
        - (result.start_logits[0] + result.end_logits[0])

\* C17: a returned label carries the id of the scored example, the winning
\* rank_score as passage_answer_score and as minimal_answer_score, the byte
\* range of the winning tuple as minimal_answer, and yes_no_answer "NONE"
LabelShape ==
    Predicted =>
        /\ Label.example_id = sc_example.example_id
        /\ Label.passage_answer_score = WinningRankScore
        /\ Label.minimal_answer_score = WinningRankScore
        /\ Label.minimal_answer =
               [start_byte_offset |->
                    WinningFeature.wp_start_offset[sc_out.best.start_index],
                end_byte_offset |->
                    WinningFeature.wp_end_offset[sc_out.best.end_index] + 1]
        /\ Label.yes_no_answer = "NONE"

\* C17 witness: a label from a result whose [CLS] score is not 0, for a
\* span that no candidate contains
LabelShapeWitness ==
    /\ Predicted
    /\ sc_out.warnings = <<WarnNoPassage>>
    /\ LET result == DictGet(sc_example.results, sc_out.best.unique_id)
       IN  result.start_logits[0] + result.end_logits[0] # 0

\* C19: the passage_answer_index of a returned prediction is the ordinal of
\* one of the example's candidates, 0 <= index < number of candidates, also
\* when the candidate list is empty or no candidate contains the span
ValidPassageIndex ==
    Predicted =>
        /\ 0 <= Label.passage_answer_index
        /\ Label.passage_answer_index < Len(sc_example.candidates)


----------------------------------------------------------------------------
(* Properties of compute_pred_dict, checked under Spec *)

\* the loop over merged has run to its end
JoinOver == (pc = "join" /\ merged = <<>>) \/ pc \in {"collect", "done"}

ExampleIds == DictKeys(candidates_dict)

\* key lies after example id k and before the next example id
Between(k, key) ==
    /\ k < key
    /\ \A j \in ExampleIds : k < j => key < j

\* the identifier invariant: unique ids are distinct within each stream and
\* every derived id lies after an example id and before the next one, the
\* example a Feature names as its own
IdentifierInvariant ==
    /\ \A i, j \in 1..Len(dev_features) :
           dev_features[i].unique_ids = dev_features[j].unique_ids => i = j
    /\ \A i, j \in 1..Len(raw_results) :
           raw_results[i].unique_id = raw_results[j].unique_id => i = j
    /\ \A i \in 1..Len(dev_features) :
           /\ dev_features[i].example_index \in ExampleIds
           /\ Between(dev_features[i].example_index, dev_features[i].unique_ids + 1)
    /\ \A i \in 1..Len(raw_results) :
           \E k \in ExampleIds : Between(k, raw_results[i].unique_id + 1)

\* the aggregate holds the Feature under its join key
HasFeature(example, feature) ==
    \E i \in 1..Len(example.features) :
        /\ example.features[i].key = feature.unique_ids + 1
        /\ example.features[i].value = feature

\* the aggregate holds the RawResult under its join key
HasResult(example, result) ==
    \E i \in 1..Len(example.results) :
        /\ example.results[i].key = result.unique_id + 1
        /\ example.results[i].value = result

\* C1: under the identifier invariant every Feature and every RawResult whose
\* join key lies between example id k and the next example id is in the
\* aggregate of k once the join is over, and in no other aggregate
JoinCompleteness ==
    (JoinOver /\ IdentifierInvariant) =>
        \A k \in ExampleIds :
            /\ \E e \in 1..Len(eval_examples) : eval_examples[e].example_id = k
            /\ \A i \in 1..Len(dev_features) :
                   Between(k, dev_features[i].unique_ids + 1) =>
                       \A e \in 1..Len(eval_examples) :
                           HasFeature(eval_examples[e], dev_features[i])
                               <=> eval_examples[e].example_id = k
            /\ \A i \in 1..Len(raw_results) :
                   Between(k, raw_results[i].unique_id + 1) =>
                       \A e \in 1..Len(eval_examples) :
                           HasResult(eval_examples[e], raw_results[i])
                               <=> eval_examples[e].example_id = k

\* C1 witness: the join is over for two examples, the first with a Feature
\* and a RawResult and the second with a Feature
JoinCompletenessWitness ==
    /\ JoinOver /\ IdentifierInvariant
    /\ Len(eval_examples) = 2
    /\ eval_examples[1].features # <<>> /\ eval_examples[1].results # <<>>
    /\ eval_examples[2].features # <<>>

\* the mapping a dict stands for
AsMap(d) == [k \in DictKeys(d) |-> DictGet(d, k)]

\* the run without a pool: score the examples one after the other in the
\* order of eval_examples, collecting each result as it is returned
RECURSIVE SequentialRun(_, _, _, _)
SequentialRun(examples, i, beam, max_len) ==
    IF i = 0 THEN <<>>
    ELSE CollectResult(SequentialRun(examples, i - 1, beam, max_len),
                       ConstructPredictionObject(examples[i], beam, max_len))

\* C2: the returned mapping has the keys and values of the sequential run,
\* whatever the number of workers, the chunk size and the completion order
OrderInsensitive ==
    pc = "done" =>
        AsMap(tydi_pred_dict) =
            AsMap(SequentialRun(eval_examples, Len(eval_examples),
                                candidate_beam, max_answer_length))

\* C2 witness: a run of several workers returns two predictions that it
\* collected in the reverse of the order of eval_examples
OrderInsensitiveWitness ==
    /\ pc = "done"
    /\ nbr_parallel_blocks >= 2
    /\ Len(eval_examples) = 2
    /\ Len(tydi_pred_dict) = 2
    /\ tydi_pred_dict[1].key = eval_examples[2].example_id
    /\ tydi_pred_dict[2].key = eval_examples[1].example_id

\* C4: a Feature that names another example than the current one halts the
\* run with a descriptive integrity error; the Feature enters no aggregate
\* and no mapping is returned
IntegrityMismatchFatal ==
    (pc = "error" /\ error.at # None) =>
        /\ error.type = "AssertionError"
        /\ error.descriptive
        /\ \A e \in 1..Len(eval_examples) :
               ~HasFeature(eval_examples[e], error.at.datum)
        /\ tydi_pred_dict = <<>>

\* the loop is at a Feature or RawResult and no example has been created
AtFailedMatch ==
    /\ pc = "join" /\ merged # <<>>
    /\ Head(merged).kind # KindExample
    /\ eval_examples = <<>>

\* is the merged record held by an aggregate?
Attached(record) ==
    \E e \in 1..Len(eval_examples) :
        \/ \E i \in 1..Len(eval_examples[e].features) :
               eval_examples[e].features[i].value = record.datum
        \/ \E i \in 1..Len(eval_examples[e].results) :
               eval_examples[e].results[i].value = record.datum

\* C5: a Feature or RawResult met before the first example is logged,
\* counted in num_failed_matches and skipped: the join goes on with the next
\* record, no error is raised, no aggregate changes at that step, and the
\* record is in no aggregate at any later time
FailedMatchRecoverable ==
    /\ [][AtFailedMatch =>
            /\ log' = Append(log, WarnNoExample)
            /\ num_failed_matches' = num_failed_matches + 1
            /\ pc' = "join" /\ error' = None
            /\ merged' = Tail(merged)
            /\ eval_examples' = eval_examples
            /\ Head(merged) \in skipped']_vars
    /\ [](\A record \in skipped : ~Attached(record))

\* C5 witness: a run that skipped a record before its first example has
\* gone on to attach a later record to an aggregate
FailedMatchRecoverableWitness ==
    /\ skipped # {}
    /\ num_failed_matches > 0
    /\ \E e \in 1..Len(eval_examples) :
           eval_examples[e].features # <<>> \/ eval_examples[e].results # <<>>

\* the example ids the scorer returns a prediction for
ScoredIds ==
    { eval_examples[e].example_id : e \in
        { i \in 1..Len(eval_examples) :
            ComputePredictions(eval_examples[i], candidate_beam,
                               max_answer_length).ret # None } }

\* C10: on return every example has been scored exactly once, and the
\* mapping has one entry, the predicted label, for each example the scorer
\* returned a prediction for and no other entry; an example without results
\* has none
FanInExact ==
    pc = "done" =>
        /\ \A i \in 1..Len(eval_examples) : invocations[i] = 1
        /\ steps = Len(eval_examples)
        /\ DictKeys(tydi_pred_dict) = ScoredIds
        /\ Len(tydi_pred_dict) = Cardinality(ScoredIds)
        /\ \A e \in 1..Len(eval_examples) :
               LET out == ComputePredictions(eval_examples[e], candidate_beam,
                                             max_answer_length)
               IN  /\ out.ret # None =>
                       DictGet(tydi_pred_dict, eval_examples[e].example_id)
                           = out.ret.predicted_label
                   /\ eval_examples[e].results = <<>> =>
                       ~DictHas(tydi_pred_dict, eval_examples[e].example_id)

\* C10 witness: a returned run over an example with a prediction and an
\* example without results
FanInExactWitness ==
    /\ pc = "done"
    /\ Len(eval_examples) = 2
    /\ Len(tydi_pred_dict) = 1
    /\ \E e \in 1..2 : eval_examples[e].results = <<>>

\* the examples whose scoring raises
RaisingExamples ==
    { e \in 1..Len(eval_examples) :
        ComputePredictions(eval_examples[e], candidate_beam,
                           max_answer_length).raised # None }

\* C18: when the scoring of an example raises in the pool, compute_pred_dict
\* returns no mapping: the run never reaches its return, and it ends with
\* the exception of a task, re-raised in the coordinating thread
WorkerFailureSurfaces ==
    /\ pc = "done" => RaisingExamples = {}
    /\ (pc = "collect" /\ taskqueue = <<>> /\ running = {} /\ outqueue = <<>>)
           => RaisingExamples = {}
    /\ (pc = "error" /\ error.type = "IndexError") =>
           /\ RaisingExamples # {}
           /\ error.descriptive

\* C18 witness: the run was aborted by the exception of one task after the
\* prediction of a sibling example had been collected
WorkerFailureSurfacesWitness ==
    /\ pc = "error" /\ error.type = "IndexError"
    /\ Len(eval_examples) = 2
    /\ Cardinality(RaisingExamples) = 1
    /\ Len(tydi_pred_dict) = 1

BeforeFirstExample ==
    LET first == CHOOSE k \in ExampleIds : \A j \in ExampleIds : k <= j
    IN  Cardinality({i \in 1..Len(dev_features) :
                        AsInt32(dev_features[i].unique_ids + 1) < first})
        + Cardinality({i \in 1..Len(raw_results) :
                        raw_results[i].unique_id + 1 < first})

\* the number of records the merged list started with
NumMerged == Len(candidates_dict) + Len(dev_features) + Len(raw_results)

\* C20: every merged record is consumed once, by one of the three counters,
\* and the loop ends with ex_count + feature_count + result_count =
\* len(merged); once there is an EvalExample num_failed_matches stays what it
\* is, the number of Feature and RawResult records sorted before the first
\* example key
JoinBookkeeping ==
    /\ pc \in {"join", "collect", "done"} =>
           ex_count + feature_count + result_count + Len(merged) = NumMerged
    /\ JoinOver =>
           /\ merged = <<>>
           /\ ex_count + feature_count + result_count = NumMerged
           /\ ex_count = Len(candidates_dict)
           /\ feature_count = Len(dev_features)
           /\ result_count = Len(raw_results)
    /\ (pc \in {"join", "collect", "done"} /\ eval_examples # <<>>) =>
           num_failed_matches = BeforeFirstExample
    /\ (pc = "join" /\ eval_examples = <<>>) =>
           num_failed_matches = feature_count + result_count

\* C20 witness: the loop has ended after a failed match, with a record whose
\* key equals the first example key attached to that example
JoinBookkeepingWitness ==
    /\ JoinOver
    /\ num_failed_matches > 0
    /\ \E i \in 1..Len(eval_examples[1].results) :
          eval_examples[1].results[i].key = eval_examples[1].example_id

\* the cause the run's error has in the inputs
ErrorHasFatalCause ==
    \/ error.type = "ValueError" /\ candidates_dict = <<>>
    \/ error.type = "OverflowError" /\ CastOverflows(candidates_dict, dev_features)
    \/ /\ error.type \in {"AssertionError", "KeyError"}
       /\ error.at.kind = KindFeature
       /\ eval_examples # <<>>
       /\ eval_examples[Last(eval_examples)].example_id # error.at.datum.example_index
    \/ error.type = "IndexError" /\ RaisingExamples # {}

\* the run can take a step: the guard of one of its actions holds
CanStep ==
    \/ pc = "start"
    \/ /\ pc = "join" /\ merged # <<>>
       /\ Head(merged).kind \in {KindExample, KindFeature, KindResult}
    \/ pc = "join" /\ merged = <<>> /\ eval_examples # <<>>
    \/ /\ pc = "collect" /\ taskqueue # <<>>
       /\ Cardinality(running) < nbr_parallel_blocks
    \/ pc = "collect" /\ running # {}
    \/ pc = "collect" /\ outqueue # <<>>
    \/ pc = "collect" /\ taskqueue = <<>> /\ running = {} /\ outqueue = <<>>

\* what the scorer returns for aggregate e
Scored(e) ==
    ComputePredictions(eval_examples[e], candidate_beam, max_answer_length)

\* C12: a record before any example, an example without results, an example
\* with unequal counts of features and results, an example whose spans are
\* all filtered out and an example whose span no candidate contains never
\* end the run: it ends in an error only for a cause that is none of these,
\* it can always take its next step until then, and on return the mapping
\* holds the prediction of every example that has one
NoRecoverableAbort ==
    /\ pc = "error" => ErrorHasFatalCause
    /\ pc \notin {"done", "error"} => CanStep
    /\ pc = "done" =>
           \A e \in 1..Len(eval_examples) :
               Scored(e).ret # None =>
                   /\ DictHas(tydi_pred_dict, eval_examples[e].example_id)
                   /\ DictGet(tydi_pred_dict, eval_examples[e].example_id)
                          = Scored(e).ret.predicted_label

\* C12 witness: a run that skipped a record before its first example and
\* scored an example with a result and no feature has returned the
\* prediction of the other example, made for a span no candidate contains
NoRecoverableAbortWitness ==
    /\ pc = "done"
    /\ num_failed_matches > 0
    /\ Len(eval_examples) = 2
    /\ Len(tydi_pred_dict) = 1
    /\ \E e \in 1..2 :
          /\ eval_examples[e].results # <<>>
          /\ Len(eval_examples[e].features) # Len(eval_examples[e].results)
    /\ \E e \in 1..2 : Scored(e).warnings = <<WarnNoPassage>>

\* windows and results pair up: every RawResult has exactly one Feature of
\* its unique_id, and every Feature one RawResult
PairedInputs ==
    /\ \A i \in 1..Len(raw_results) :
           Cardinality({j \in 1..Len(dev_features) :
               dev_features[j].unique_ids = raw_results[i].unique_id}) = 1
    /\ \A j \in 1..Len(dev_features) :
           Cardinality({i \in 1..Len(raw_results) :
               raw_results[i].unique_id = dev_features[j].unique_ids}) = 1

\* C14: when windows and results pair up, then after the join every key of
\* an aggregate's results is a key of its features and the two mappings
\* have the same size, whatever the unique ids are
FeatureResultPairing ==
    (JoinOver /\ PairedInputs) =>
        \A e \in 1..Len(eval_examples) :
            /\ DictKeys(eval_examples[e].results)
                   \subseteq DictKeys(eval_examples[e].features)
            /\ Len(eval_examples[e].results) = Len(eval_examples[e].features)


----------------------------------------------------------------------------
(* Properties of the tokenizer *)

\* every id went back to a token
Converted == tk_pc \in {"to_string", "build", "mask", "types", "done"}

\* the tokens of the text were joined
Joined == tk_pc \in {"build", "mask", "types", "done"}

SpecialIds == {SPECIAL_CODEPOINTS[i].key : i \in 1..Len(SPECIAL_CODEPOINTS)}

SpecialPositions(token_ids_0, token_ids_1) ==
    IF token_ids_1 = None THEN {1, Len(token_ids_0) + 2}
    ELSE {1, Len(token_ids_0) + 2, Len(token_ids_0) + Len(token_ids_1.list) + 3}

====
